---- MODULE Spec2Model ----
(***************************************************************************)
(* Model of src/app.py: a Streamlit dashboard over data/activity_log.csv.  *)
(*                                                                         *)
(* Every run of the script (one per user interaction and session) calls    *)
(* add_new_activity_form(), then load_data() and sort_values(), renders    *)
(* the period tabs, the weekly chart and the raw table, and processes the  *)
(* delete form.  The backing file is the only state shared by sessions.    *)
(*                                                                         *)
(* Abstractions:                                                           *)
(*  - a calendar date is a day number; day 0 is a Monday, so d % 7 is the  *)
(*    weekday with 0 = Monday and 6 = Sunday;                              *)
(*  - the text of a Date cell of the file is [fmt, day]: fmt "iso" is      *)
(*    %Y-%m-%d, "slash" another format to_datetime(format='mixed') infers, *)
(*    "bad" a text it cannot parse;                                        *)
(*  - Hours are binary64 numbers, held as sign and magnitude in units of    *)
(*    2^-56 (three limbs of 20 bits): every value below 16 that the model  *)
(*    draws or adds up is such a multiple, so additions round as the       *)
(*    hardware does (to 53 significant bits, ties to even);                *)
(*  - a DataFrame is the sequence of its rows, each carrying its index     *)
(*    label idx;                                                           *)
(*  - to_csv takes two steps, as no lock is held: opening the file empties *)
(*    it, closing it writes the rows from offset 0 without cutting the     *)
(*    file again (files smaller than one write buffer); a read in between  *)
(*    finds 0 bytes, and what another writer put beyond the written length *)
(*    stays.                                                               *)
(***************************************************************************)
EXTENDS Integers, Sequences, FiniteSets, TLC

VARIABLES
    csv,      \* data/activity_log.csv: [exists, rows, truncated]
    sess,     \* per session: position in the script run and its locals
    last,     \* history: the store operation the latest step completed, if any
    lost,     \* history: some rewrite did not apply its request to the store as it was
    overlap,  \* history: a session stepped while another was inside a run
    df,       \* aggregation specification: main's df (lines 120-121)
    today,    \* aggregation specification: main's today (line 124)
    out       \* aggregation specification: what the latest tab computed

vars == <<csv, sess, last, lost, overlap, df, today, out>>
storeVars == <<csv, sess, last, lost, overlap>>
aggVars == <<df, today, out>>

-----------------------------------------------------------------------------
(* Bounds *)

\* longest backing file the store machine grows to
MaxRows == 3
\* longest frame the aggregation specification draws
MaxLen == 3
\* longest backing file the two-session specification grows to
RaceRows == 2

-----------------------------------------------------------------------------
(* Generic helpers *)

\* one limb of a magnitude holds 20 bits
Limb == 2^20

\* the float64 of sign neg and magnitude (hi * 2^40 + mid * 2^20 + lo) * 2^-56
Float(neg, hi, mid, lo) == [neg |-> neg, hi |-> hi, mid |-> mid, lo |-> lo]

Zero == Float(FALSE, 0, 0, 0)

\* the float64 nearest to the decimal literals the model draws
H01 == Float(FALSE, 6553, 629145, 629146)     \* 0.1
H02 == Float(FALSE, 13107, 209715, 209716)    \* 0.2
H05 == Float(FALSE, 32768, 0, 0)              \* 0.5
H06 == Float(FALSE, 39321, 629145, 629144)    \* 0.6
H10 == Float(FALSE, 65536, 0, 0)              \* 1.0
Hm03 == Float(TRUE, 19660, 838860, 838860)    \* -0.3
Htiny == Float(FALSE, 0, 0, 1)                \* 2^-56, 1.3877787807814457e-17

Mag(a) == <<a.hi, a.mid, a.lo>>

MagAdd(a, b) ==
    LET lo == a[3] + b[3]
        mid == a[2] + b[2] + (lo \div Limb)
    IN <<a[1] + b[1] + (mid \div Limb), mid % Limb, lo % Limb>>

MagLess(a, b) ==
    \/ a[1] < b[1]
    \/ a[1] = b[1] /\ a[2] < b[2]
    \/ a[1] = b[1] /\ a[2] = b[2] /\ a[3] < b[3]

\* a - b for b not above a
MagSub(a, b) ==
    LET lo == a[3] - b[3]
        mid == a[2] - b[2] - (IF lo < 0 THEN 1 ELSE 0)
    IN <<a[1] - b[1] - (IF mid < 0 THEN 1 ELSE 0),
         (mid + Limb) % Limb, (lo + Limb) % Limb>>

\* the number of bits of x
BitLen(x) == CHOOSE k \in 0..31 : x < 2^k /\ (k = 0 \/ x >= 2^(k - 1))

\* a magnitude rounded to 53 significant bits, ties to even
Round53(m) ==
    LET d == BitLen(m[1]) - 13
    IN IF d <= 0 THEN m
       ELSE LET p == 2^d
                r == m[3] % p
                down == <<m[1], m[2], m[3] - r>>
                up == \/ 2 * r > p
                      \/ 2 * r = p /\ (m[3] \div p) % 2 = 1
            IN IF up THEN MagAdd(down, <<0, 0, p>>) ELSE down

\* a + b in the reals
ExactAdd(a, b) ==
    LET ma == Mag(a)
        mb == Mag(b)
        m == IF a.neg = b.neg THEN MagAdd(ma, mb)
             ELSE IF MagLess(ma, mb) THEN MagSub(mb, ma) ELSE MagSub(ma, mb)
        neg == IF a.neg = b.neg THEN a.neg
               ELSE IF MagLess(ma, mb) THEN b.neg ELSE a.neg
    IN Float(neg /\ m # <<0, 0, 0>>, m[1], m[2], m[3])

\* float64 a + b
fadd(a, b) ==
    LET e == ExactAdd(a, b)
        m == Round53(Mag(e))
    IN Float(e.neg, m[1], m[2], m[3])

fneg(a) == Float(~a.neg /\ Mag(a) # <<0, 0, 0>>, a.hi, a.mid, a.lo)

\* float64 a - b
fsub(a, b) == fadd(a, fneg(b))

\* a < b
fless(a, b) ==
    IF a.neg # b.neg THEN a.neg
    ELSE IF a.neg THEN MagLess(Mag(b), Mag(a)) ELSE MagLess(Mag(a), Mag(b))

\* a <= b
fleq(a, b) == a = b \/ fless(a, b)

RECURSIVE SumFrom(_, _)
SumFrom(acc, f) ==
    IF f = <<>> THEN acc ELSE SumFrom(fadd(acc, Head(f).Hours), Tail(f))

\* Series.sum() of the Hours column: the values added one after another from
\* the first (numpy's reduction of fewer than 8 values); 0 for no rows
SumHours(f) == SumFrom(Zero, f)

RECURSIVE KahanFrom(_, _, _)
KahanFrom(sumx, compensation, f) ==
    IF f = <<>> THEN sumx
    ELSE LET y == fsub(Head(f).Hours, compensation)
             t == fadd(sumx, y)
         IN KahanFrom(t, fsub(fsub(t, sumx), y), Tail(f))

\* the sum of one group in groupby(...).sum() and resample(...).sum(): pandas'
\* group_sum adds the group's values in frame order with Kahan compensation
group_sum(f) == KahanFrom(Zero, Zero, f)

\* the number of rows of frame f equal to r in the three data columns
Count(f, r) ==
    Cardinality({i \in 1..Len(f) :
        /\ f[i].Date = r.Date
        /\ f[i].Category = r.Category
        /\ f[i].Hours = r.Hours})

\* the data columns of a row, without its index label
Data(r) == [Date |-> r.Date, Category |-> r.Category, Hours |-> r.Hours]

\* two frames hold the same multiset of records
SameBag(f, g) ==
    /\ Len(f) = Len(g)
    /\ \A i \in 1..Len(f) : Count(f, f[i]) = Count(g, f[i])

-----------------------------------------------------------------------------
(* Categories *)

\* the selectbox labels, in the form's order, romanised:
\* '企業研究', 'ES作成', '面接対策', 'ポートフォリオ', 'その他'
categories == <<"kigyo_kenkyu", "ES_sakusei", "mensetsu_taisaku", "portfolio", "sonota">>

\* the rank of a label in Python's string order (code points) of the labels
\* themselves: 'ES作成' < 'その他' < 'ポートフォリオ' < '企業研究' < '面接対策'
CatKey(c) ==
    CASE c = "ES_sakusei" -> 1
      [] c = "sonota" -> 2
      [] c = "portfolio" -> 3
      [] c = "kigyo_kenkyu" -> 4
      [] c = "mensetsu_taisaku" -> 5

-----------------------------------------------------------------------------
(* Log store: pandas operations on the backing file *)

\* new_date.strftime('%Y-%m-%d'), and the text to_csv writes for a datetime64 cell
strftime(d) == [fmt |-> "iso", day |-> d]

\* whether pd.to_datetime(format='mixed') can interpret a cell
CanParse(text) == text.fmt \in {"iso", "slash"}

\* pd.to_datetime(cell, format='mixed') on a cell it can interpret
to_datetime(text) == text.day

\* pd.read_csv of an existing file: Date stays text, index labels 0..n-1
read_csv(file) ==
    [i \in 1..Len(file.rows) |->
        [idx |-> i - 1,
         Date |-> file.rows[i].Date,
         Category |-> file.rows[i].Category,
         Hours |-> file.rows[i].Hours]]

\* (variant: a missing file read as an empty frame)
ReadCsvNeverRaises(file) == FALSE

\* pd.read_csv raises: the file is absent (FileNotFoundError) or holds no
\* bytes, not even the header line (EmptyDataError)
ReadCsvRaises(file) == ~file.exists \/ file.truncated

\* load_data returns (no st.stop()): read_csv returns and every Date parses
LoadOk(file) ==
    /\ file.exists
    /\ ~file.truncated
    /\ \A i \in 1..Len(file.rows) : CanParse(file.rows[i].Date)

\* load_data's frame when it returns: read_csv, then Date converted
load_data(file) ==
    LET raw == read_csv(file)
    IN [i \in 1..Len(raw) |-> [raw[i] EXCEPT !.Date = to_datetime(@)]]

RECURSIVE InsertDesc(_, _)
\* x placed before the first row of the descending frame s dated on or before it
InsertDesc(x, s) ==
    IF s = <<>> THEN <<x>>
    ELSE IF Head(s).Date <= x.Date THEN <<x>> \o s
    ELSE <<Head(s)>> \o InsertDesc(x, Tail(s))

RECURSIVE sort_values(_)
\* df.sort_values('Date', ascending=False): rows by Date descending, each row
\* keeping its index label; rows of one date stay in their previous order
\* (pandas reverses the column before and after the ascending argsort)
sort_values(f) ==
    IF f = <<>> THEN <<>> ELSE InsertDesc(Head(f), sort_values(Tail(f)))

\* df.reset_index(drop=True): the same rows, labelled 0..n-1 by position
reset_index(f) == [i \in 1..Len(f) |-> [f[i] EXCEPT !.idx = i - 1]]

\* the index labels of a frame
Index(f) == {f[i].idx : i \in 1..Len(f)}

\* (variant: the options numbered from 1)
OptionsFromOne(df_display) == {df_display[i].idx + 1 : i \in 1..Len(df_display)}

\* options=df_display.index.tolist(): what the multiselect offers and returns
Options(df_display) == Index(df_display)

\* df.drop(labels, axis=0) raises KeyError: some label is not in df's index
DropRaises(f, labels) == ~(labels \subseteq Index(f))

\* df.drop(labels, axis=0): the rows whose index LABEL is not among labels
drop(f, labels) == SelectSeq(f, LAMBDA r : r.idx \notin labels)

\* (variant: the new row put first)
concat_reversed(f, g) == reset_index(g \o f)

\* pd.concat([df, new_data], ignore_index=True)
concat(f, g) == reset_index(f \o g)

\* the file once to_csv has opened it for writing (mode 'w' creates or
\* truncates it) and before the rows it buffers reach it: 0 bytes
open_w == [exists |-> TRUE, rows |-> <<>>, truncated |-> TRUE]

\* to_csv(index=False) of a frame whose Date column holds text (read_csv's):
\* the file when the handle is closed
to_csv_text(f) ==
    [exists |-> TRUE, truncated |-> FALSE,
     rows |-> [i \in 1..Len(f) |-> Data(f[i])]]

\* to_csv(index=False) of a frame whose Date column is datetime64
\* (load_data's): the file when the handle is closed
to_csv_dates(f) ==
    [exists |-> TRUE, truncated |-> FALSE,
     rows |-> [i \in 1..Len(f) |->
        [Date |-> strftime(f[i].Date),
         Category |-> f[i].Category,
         Hours |-> f[i].Hours]]]

\* the bytes of a Date cell: '%Y-%m-%d', and the other texts the model draws,
\* are ten characters
DateBytes == 10

\* the bytes of an Hours cell: to_csv writes the hours the store machine
\* draws as '0.5' and '1.0'
HoursBytes == 3

\* the bytes of a Category cell in UTF-8: three per kana or kanji
CatBytes(c) ==
    CASE c = "kigyo_kenkyu" -> 12
      [] c = "ES_sakusei" -> 8
      [] c = "mensetsu_taisaku" -> 12
      [] c = "portfolio" -> 21
      [] c = "sonota" -> 9

\* the bytes of one line of the file: three cells, two commas, the line end
LineBytes(r) == DateBytes + 1 + CatBytes(r.Category) + 1 + HoursBytes + 1

RECURSIVE RowsBytes(_)
\* the bytes of the lines after the header
RowsBytes(rows) ==
    IF rows = <<>> THEN 0 ELSE LineBytes(Head(rows)) + RowsBytes(Tail(rows))

\* the file when to_csv's handle writes content new and is closed: the write
\* starts at offset 0 and cuts nothing off, the file having been emptied when
\* the handle was opened; if another handle has put a longer content there
\* since, the bytes beyond the end of new stay.  (The header is the same in
\* both.  The leftover starts at a line boundary in every file the model
\* reaches: the two-session specification draws lines of one length.)
handle_write(old, new) ==
    IF old.truncated \/ RowsBytes(new.rows) >= RowsBytes(old.rows)
    THEN new
    ELSE LET k == CHOOSE k \in 0..Len(old.rows) :
                     RowsBytes(SubSeq(old.rows, 1, k)) = RowsBytes(new.rows)
         IN [new EXCEPT !.rows = new.rows \o SubSeq(old.rows, k + 1, Len(old.rows))]

\* new_data of add_new_activity_form: one row, Date already text
new_data(d, c, h) ==
    <<[idx |-> 0, Date |-> strftime(d), Category |-> c, Hours |-> h]>>

-----------------------------------------------------------------------------
(* Aggregator: get_time_summary, the period tabs, create_line_chart *)

RECURSIVE SortedKeys(_)
\* the group keys in ascending label order
SortedKeys(S) ==
    IF S = {} THEN <<>>
    ELSE LET m == CHOOSE x \in S : \A y \in S : CatKey(x) <= CatKey(y)
         IN <<m>> \o SortedKeys(S \ {m})

RECURSIVE KeysAsMet(_, _)
\* the categories of frame f not in seen, in order of first appearance
KeysAsMet(f, seen) ==
    IF f = <<>> THEN <<>>
    ELSE IF Head(f).Category \in seen THEN KeysAsMet(Tail(f), seen)
    ELSE <<Head(f).Category>> \o KeysAsMet(Tail(f), seen \cup {Head(f).Category})

\* (variant: groupby(sort=False), groups in order of first appearance)
groupby_sum_unsorted(f) ==
    LET keys == KeysAsMet(f, {})
    IN [k \in 1..Len(keys) |->
          [Category |-> keys[k],
           Hours |-> group_sum(SelectSeq(f, LAMBDA r : r.Category = keys[k]))]]

\* (variant: first() in place of sum(), one record's hours per category)
groupby_first(f) ==
    LET keys == SortedKeys({f[i].Category : i \in 1..Len(f)})
    IN [k \in 1..Len(keys) |->
          [Category |-> keys[k],
           Hours |-> Head(SelectSeq(f, LAMBDA r : r.Category = keys[k])).Hours]]

\* df.groupby('Category')['Hours'].sum().reset_index(): one row per category
\* present, in sorted key order (groupby's default sort=True)
groupby_sum(f) ==
    LET keys == SortedKeys({f[i].Category : i \in 1..Len(f)})
    IN [k \in 1..Len(keys) |->
          [Category |-> keys[k],
           Hours |-> group_sum(SelectSeq(f, LAMBDA r : r.Category = keys[k]))]]

\* get_time_summary: (time_summary, total_hours); the empty frame and 0 when
\* the input is empty or its hours sum to 0
get_time_summary(df_filtered) ==
    IF df_filtered = <<>> \/ SumHours(df_filtered) = Zero
    THEN [time_summary |-> <<>>, total_hours |-> Zero]
    ELSE LET time_summary == groupby_sum(df_filtered)
         IN [time_summary |-> time_summary,
             total_hours |-> SumHours(time_summary)]

\* (variant: the comparison turned around)
FilterUntil(f, start_date) == SelectSeq(f, LAMBDA r : r.Date <= start_date)

\* df[df['Date'] >= start_date]
FilterFrom(f, start_date) == SelectSeq(f, LAMBDA r : r.Date >= start_date)

\* days back from today of the three dated entries of date_ranges
Days7 == 7
Days30 == 30
Days150 == 150

\* the Sunday closing the Monday..Sunday week of day d (rule 'W' is W-SUN, bins
\* closed and labelled on the right)
WeekEnd(d) == d + (6 - (d % 7))

MinDate(f) == CHOOSE d \in {f[i].Date : i \in 1..Len(f)} :
                 \A i \in 1..Len(f) : d <= f[i].Date
MaxDate(f) == CHOOSE d \in {f[i].Date : i \in 1..Len(f)} :
                 \A i \in 1..Len(f) : d >= f[i].Date

RECURSIVE InsertAsc(_, _)
\* x put before the first row of a later date
InsertAsc(x, s) ==
    IF s = <<>> THEN <<x>>
    ELSE IF x.Date <= Head(s).Date THEN <<x>> \o s
    ELSE <<Head(s)>> \o InsertAsc(x, Tail(s))

RECURSIVE sort_index(_)
\* the rows by Date ascending, rows of one date in their previous order:
\* resample takes the rows in the order of a stable argsort of the index
sort_index(f) ==
    IF f = <<>> THEN <<>> ELSE InsertAsc(Head(f), sort_index(Tail(f)))

\* (variant: only the weeks that hold a record)
resample_W_sum_no_fill(f) ==
    LET ends == {WeekEnd(f[i].Date) : i \in 1..Len(f)}
        first == WeekEnd(MinDate(f))
        n == ((WeekEnd(MaxDate(f)) - first) \div 7) + 1
        all == [k \in 1..n |->
                  [Date |-> first + 7 * (k - 1),
                   Hours |-> group_sum(SelectSeq(sort_index(f),
                        LAMBDA r : WeekEnd(r.Date) = first + 7 * (k - 1)))]]
    IN SelectSeq(all, LAMBDA pt : pt.Date \in ends)

\* df_data.set_index('Date')['Hours'].resample('W').sum().reset_index() for a
\* non-empty frame: one bin per week from the earliest record's week to the
\* latest record's week, a week without records summing to 0
resample_W_sum(f) ==
    LET first == WeekEnd(MinDate(f))
        n == ((WeekEnd(MaxDate(f)) - first) \div 7) + 1
    IN [k \in 1..n |->
          [Date |-> first + 7 * (k - 1),
           Hours |-> group_sum(SelectSeq(sort_index(f),
                        LAMBDA r : WeekEnd(r.Date) = first + 7 * (k - 1)))]]

\* create_line_chart's df_weekly
create_line_chart(df_data) == resample_W_sum(df_data)

-----------------------------------------------------------------------------
(* Inputs of the store machine *)

Sessions == {1, 2}

\* what the add form submits: date_input, selectbox, number_input
AddDays == {1, 2}
AddCats == {categories[1], categories[2]}
AddHours == {H05, H10}
AddForms == AddDays \X AddCats \X AddHours

\* the two-session specification draws one input and a shorter file, with
\* category labels of one length
RaceForms == {<<2, categories[3], H10>>}

\* Date cells a file found on disk may hold
FileDates ==
    {[fmt |-> "iso", day |-> 1], [fmt |-> "slash", day |-> 2],
     [fmt |-> "iso", day |-> 3], [fmt |-> "bad", day |-> 0]}

FileRows ==
    [Date : FileDates, Category : {categories[1], categories[2]}, Hours : {H05, H10}]

NoFile == [exists |-> FALSE, rows |-> <<>>, truncated |-> FALSE]

\* the backing file as the program may find it: absent, of 0 bytes, or a
\* header and up to two rows in any order
InitFiles ==
    {NoFile, open_w} \cup
    {[exists |-> TRUE, rows |-> r, truncated |-> FALSE] :
        r \in UNION {[1..n -> FileRows] : n \in 0..2}}

NoOp ==
    [op |-> "none", sid |-> 0, before |-> NoFile,
     D |-> <<>>, P |-> {}, final |-> <<>>, new |-> <<>>, reported |-> 0]

Fresh == [pc |-> "idle", req |-> "none", new |-> <<>>, raw |-> <<>>,
          df |-> <<>>, form |-> FALSE, P |-> {}, before |-> NoFile]

\* add forms submitted and not yet written
PendingAdds ==
    Cardinality({s \in Sessions : sess[s].pc \in {"add_read", "add_open", "add_write"}})

\* the lengths of the file and of every frame a running script holds: a later
\* rewrite is no longer than the longest of them plus the pending additions
HeldLengths ==
    {Len(csv.rows)} \cup {Len(sess[s].raw) : s \in Sessions}
                    \cup {Len(sess[s].df) : s \in Sessions}

\* another session is inside a script run
Busy(s) == \E t \in Sessions \ {s} : sess[t].pc # "idle"

\* session t is inside to_csv: it has opened the file and not yet written it
Writing(t) == sess[t].pc \in {"add_write", "del_write"}

\* the store as session s finds it when its to_csv opens the file: the file's
\* content, or, when another session's to_csv has just truncated the file,
\* the content that session found
StoreAtOpen(s) ==
    IF csv.truncated /\ \E t \in Sessions \ {s} : Writing(t)
    THEN sess[CHOOSE t \in Sessions \ {s} : Writing(t)].before
    ELSE csv

\* the store session s replaces when its to_csv writes: what it found when it
\* opened the file, or what another session has written since
StoreAtWrite(s) == IF csv.truncated THEN sess[s].before ELSE csv

\* rows of frame f equal to record r in the data columns
CountSel(D, P, r) ==
    Cardinality({p \in P : p + 1 \in 1..Len(D) /\ Data(D[p + 1]) = Data(r)})

\* the rewritten rows are the file's rows with the request applied: the form's
\* row added at the end
AppendApplied(file, form, written) ==
    written.rows = file.rows \o
        <<[Date |-> strftime(form[1]), Category |-> form[2], Hours |-> form[3]]>>

\* the rewritten frame holds the file's records less the ones selected on screen
DeleteApplied(file, D, P, final) ==
    /\ LoadOk(file)
    /\ LET cur == load_data(file)
       IN /\ \A i \in 1..Len(cur) :
                Count(final, cur[i]) = Count(cur, cur[i]) - CountSel(D, P, cur[i])
          /\ \A i \in 1..Len(final) : Count(cur, final[i]) > 0

-----------------------------------------------------------------------------
(* Store machine: one script run per user interaction *)

\* a page load or refresh: the script runs with no form submitted
View(s) ==
    /\ sess[s].pc = "idle"
    /\ sess' = [sess EXCEPT ![s].pc = "load", ![s].req = "none"]
    /\ last' = NoOp
    /\ overlap' = (overlap \/ Busy(s))
    /\ UNCHANGED <<csv, lost, df, today, out>>

\* the user fills the sidebar form and presses the add button (line 87)
\* (Forms: the inputs drawn; cap: the file length the model stops adding at)
SubmitAdd(s, Forms, cap) ==
    /\ sess[s].pc = "idle"
    /\ \A n \in HeldLengths : n + PendingAdds < cap
    /\ \E form \in Forms :
          sess' = [sess EXCEPT ![s].pc = "add_read", ![s].req = "add",
                               ![s].new = form]
    /\ last' = NoOp
    /\ overlap' = (overlap \/ Busy(s))
    /\ UNCHANGED <<csv, lost, df, today, out>>

\* lines 90-94: read_csv; any exception shows the error and returns from the
\* form function, and the script goes on to load_data
AppendRead(s) ==
    /\ sess[s].pc = "add_read"
    /\ IF ~ReadCsvRaises(csv)
       THEN /\ sess' = [sess EXCEPT ![s].pc = "add_open", ![s].raw = read_csv(csv)]
            /\ last' = NoOp
       ELSE /\ sess' = [sess EXCEPT ![s].pc = "load", ![s].req = "none",
                                    ![s].new = <<>>]
            /\ last' = [NoOp EXCEPT !.op = "append_failed", !.sid = s,
                                    !.before = csv,
                                    !.new = sess[s].new]
    /\ overlap' = (overlap \/ Busy(s))
    /\ UNCHANGED <<csv, lost, df, today, out>>

\* lines 96-104: new_data, concat, and to_csv as far as opening the file,
\* which empties it
AppendOpen(s) ==
    /\ sess[s].pc = "add_open"
    /\ csv' = open_w
    /\ sess' = [sess EXCEPT ![s].pc = "add_write", ![s].before = StoreAtOpen(s)]
    /\ last' = NoOp
    /\ overlap' = (overlap \/ Busy(s))
    /\ UNCHANGED <<lost, df, today, out>>

\* lines 104-109: to_csv writes the rows and closes the file, then the
\* success message and st.rerun()
AppendWrite(s) ==
    /\ sess[s].pc = "add_write"
    /\ LET form == sess[s].new
           updated_df == concat(sess[s].raw, new_data(form[1], form[2], form[3]))
           written == handle_write(csv, to_csv_text(updated_df))
       IN /\ csv' = written
          /\ last' = [NoOp EXCEPT !.op = "append", !.sid = s,
                                  !.before = StoreAtWrite(s),
                                  !.new = sess[s].new,
                                  !.reported = 1]
          /\ lost' = (lost \/ ~AppendApplied(StoreAtWrite(s), sess[s].new, written))
    /\ sess' = [sess EXCEPT ![s].pc = "load", ![s].req = "none",
                            ![s].new = <<>>, ![s].raw = <<>>,
                            ![s].before = NoFile]
    /\ overlap' = (overlap \/ Busy(s))
    /\ UNCHANGED aggVars

\* the user presses the delete form's button (line 201); the form is on
\* screen only after a render of a non-empty frame
SubmitDelete(s) ==
    /\ sess[s].pc = "idle"
    /\ sess[s].form
    /\ sess' = [sess EXCEPT ![s].pc = "load", ![s].req = "delete"]
    /\ last' = NoOp
    /\ overlap' = (overlap \/ Busy(s))
    /\ UNCHANGED <<csv, lost, df, today, out>>

\* lines 120-121: load_data and sort_values; a missing file or an
\* unparseable date shows the error and st.stop() ends the run
LoadData(s) ==
    /\ sess[s].pc = "load"
    /\ IF LoadOk(csv)
       THEN /\ sess' = [sess EXCEPT ![s].pc = "render",
                                    ![s].df = sort_values(load_data(csv))]
            /\ last' = NoOp
       ELSE /\ sess' = [sess EXCEPT ![s].pc = "idle", ![s].req = "none",
                                    ![s].df = <<>>, ![s].form = FALSE]
            /\ last' = [NoOp EXCEPT !.op = "load_failed", !.sid = s,
                                    !.before = csv]
    /\ overlap' = (overlap \/ Busy(s))
    /\ UNCHANGED <<csv, lost, df, today, out>>

\* lines 124-201 of a run in which the delete button was not pressed, or whose
\* frame is empty (no delete form is built): the tabs are drawn
Render(s) ==
    /\ sess[s].pc = "render"
    /\ sess[s].req # "delete" \/ sess[s].df = <<>>
    /\ sess' = [sess EXCEPT ![s].pc = "idle", ![s].req = "none",
                            ![s].form = (sess[s].df # <<>>), ![s].df = <<>>]
    /\ overlap' = (overlap \/ Busy(s))
    /\ last' = NoOp
    /\ UNCHANGED <<csv, lost, df, today, out>>

\* lines 183-214 of a run in which the delete button was pressed: the
\* multiselect returns positions of df_display; an empty selection warns,
\* otherwise df.drop, and to_csv as far as opening the file, which empties it
DeleteForm(s) ==
    /\ sess[s].pc = "render"
    /\ sess[s].req = "delete"
    /\ sess[s].df # <<>>
    /\ LET df_display == reset_index(sess[s].df)
       IN \E indices_to_delete \in SUBSET Options(df_display) :
            IF indices_to_delete = {}
            THEN /\ last' = [NoOp EXCEPT !.op = "delete_empty", !.sid = s,
                                         !.before = csv,
                                         !.D = df_display]
                 /\ sess' = [sess EXCEPT ![s].pc = "idle", ![s].req = "none",
                                         ![s].form = TRUE, ![s].df = <<>>]
                 /\ UNCHANGED <<csv, lost, df, today, out>>
            ELSE IF DropRaises(sess[s].df, indices_to_delete)
            THEN /\ last' = [NoOp EXCEPT !.op = "delete_error", !.sid = s,
                                         !.before = csv,
                                         !.D = df_display,
                                         !.P = indices_to_delete]
                 /\ sess' = [sess EXCEPT ![s].pc = "idle", ![s].req = "none",
                                         ![s].form = TRUE, ![s].df = <<>>]
                 /\ UNCHANGED <<csv, lost, df, today, out>>
            ELSE /\ csv' = open_w
                 /\ last' = NoOp
                 /\ sess' = [sess EXCEPT ![s].pc = "del_write",
                                         ![s].P = indices_to_delete,
                                         ![s].before = StoreAtOpen(s)]
                 /\ UNCHANGED <<lost, df, today, out>>
    /\ overlap' = (overlap \/ Busy(s))

\* lines 214-219: to_csv writes the rows of df_final and closes the file, then
\* the success message and st.rerun()
DeleteWrite(s) ==
    /\ sess[s].pc = "del_write"
    /\ LET df_display == reset_index(sess[s].df)
           indices_to_delete == sess[s].P
           df_final == drop(sess[s].df, indices_to_delete)
           written == handle_write(csv, to_csv_dates(df_final))
       IN /\ csv' = written
          /\ last' = [NoOp EXCEPT !.op = "delete", !.sid = s,
                                  !.before = StoreAtWrite(s),
                                  !.D = df_display,
                                  !.P = indices_to_delete,
                                  !.final = df_final,
                                  !.reported = Cardinality(indices_to_delete)]
          /\ lost' = (lost \/ written # to_csv_dates(df_final)
                            \/ ~DeleteApplied(StoreAtWrite(s), df_display,
                                              indices_to_delete, df_final))
    /\ sess' = [sess EXCEPT ![s].pc = "load", ![s].req = "none",
                            ![s].df = <<>>, ![s].P = {}, ![s].before = NoFile]
    /\ overlap' = (overlap \/ Busy(s))
    /\ UNCHANGED aggVars

AggInit ==
    /\ df = <<>>
    /\ today = 0
    /\ out = [op |-> "none"]

StoreInit ==
    /\ csv \in InitFiles
    /\ sess = [s \in Sessions |-> Fresh]
    /\ last = NoOp
    /\ lost = FALSE
    /\ overlap = FALSE

\* one session: interactions strictly one after another
Init == StoreInit /\ AggInit

\* the session of the single-session specification
Single == {1}

Next ==
    \/ \E s \in Single : View(s)
    \/ \E s \in Single : SubmitAdd(s, AddForms, MaxRows)
    \/ \E s \in Single : AppendRead(s)
    \/ \E s \in Single : AppendOpen(s)
    \/ \E s \in Single : AppendWrite(s)
    \/ \E s \in Single : SubmitDelete(s)
    \/ \E s \in Single : LoadData(s)
    \/ \E s \in Single : Render(s)
    \/ \E s \in Single : DeleteForm(s)
    \/ \E s \in Single : DeleteWrite(s)

Spec == Init /\ [][Next]_vars


\* two sessions on the same file: Streamlit runs each session's script in its
\* own thread, so their file reads and writes interleave
RaceFiles ==
    {[exists |-> TRUE, rows |-> r, truncated |-> FALSE] :
        r \in {<<>>,
               <<[Date |-> strftime(1), Category |-> categories[1], Hours |-> H10]>>}}

RaceInit ==
    /\ csv \in RaceFiles
    /\ sess = [s \in Sessions |-> Fresh]
    /\ last = NoOp
    /\ lost = FALSE
    /\ overlap = FALSE
    /\ AggInit

NextRace ==
    \/ \E s \in Sessions : View(s)
    \/ \E s \in Sessions : SubmitAdd(s, RaceForms, RaceRows)
    \/ \E s \in Sessions : AppendRead(s)
    \/ \E s \in Sessions : AppendOpen(s)
    \/ \E s \in Sessions : AppendWrite(s)
    \/ \E s \in Sessions : SubmitDelete(s)
    \/ \E s \in Sessions : LoadData(s)
    \/ \E s \in Sessions : Render(s)
    \/ \E s \in Sessions : DeleteForm(s)
    \/ \E s \in Sessions : DeleteWrite(s)

SpecRace == RaceInit /\ [][NextRace]_vars


-----------------------------------------------------------------------------
(* Aggregation specification: the tabs of one render, on any loadable file *)

\* datetime.now().date() of the render
Todays == {200, 202}

AggRow(d, c, h) == [Date |-> strftime(d), Category |-> categories[c], Hours |-> h]

\* rows of a file found on disk: days on and around the window starts (200 - 30
\* and 202 - 7), a day of a far earlier week, and hours that are no binary
\* fractions, one tiny, one zero and one negative
AggRows ==
    {AggRow(196, 1, H01), AggRow(196, 2, H01), AggRow(196, 1, H02),
     AggRow(196, 1, Hm03), AggRow(195, 1, H06), AggRow(195, 2, Zero),
     AggRow(170, 1, Htiny), AggRow(40, 1, H06), AggRow(40, 2, Htiny)}

AggFiles ==
    {[exists |-> TRUE, rows |-> r, truncated |-> FALSE] :
        r \in UNION {[1..n -> AggRows] : n \in 0..MaxLen}}

\* the four entries of date_ranges with the frame each tab summarises; the
\* last tab takes df.copy() instead of filtering
TabFrames(f, t) ==
    [last7 |-> FilterFrom(f, t - Days7),
     last30 |-> FilterFrom(f, t - Days30),
     last150 |-> FilterFrom(f, t - Days150),
     all |-> f]

TabNames == {"last7", "last30", "last150", "all"}

\* lines 137-162: every period tab calls get_time_summary on its frame
PeriodTabs ==
    /\ out.op = "none"
    /\ out' = [op |-> "periods",
               tabs |-> [n \in TabNames |->
                    [df_filtered |-> TabFrames(df, today)[n],
                     summary |-> get_time_summary(TabFrames(df, today)[n])]],
               totals |-> [n \in TabNames |->
                    get_time_summary(TabFrames(df, today)[n]).total_hours]]
    /\ UNCHANGED <<df, today>>
    /\ UNCHANGED storeVars

\* lines 166-173: the trend tab; an empty frame shows the warning instead
TrendTab ==
    /\ out.op = "none"
    /\ out' = IF df = <<>>
              THEN [op |-> "trend_empty"]
              ELSE [op |-> "trend", df_weekly |-> create_line_chart(df)]
    /\ UNCHANGED <<df, today>>
    /\ UNCHANGED storeVars

InitAgg ==
    /\ csv = NoFile
    /\ sess = [s \in Sessions |-> Fresh]
    /\ last = NoOp
    /\ lost = FALSE
    /\ overlap = FALSE
    /\ \E file \in AggFiles : df = sort_values(load_data(file))
    /\ today \in Todays
    /\ out = [op |-> "none"]

NextAgg == PeriodTabs \/ TrendTab

SpecAgg == InitAgg /\ [][NextAgg]_vars


-----------------------------------------------------------------------------
(* Properties of the log store (single session, Spec) *)

\* the sequence on screen for file S0: load, sort by date descending, renumber
Displayed(S0) == reset_index(sort_values(load_data(S0)))

\* the rows of the display D at the positions not in P
NotSelected(D, P) == SelectSeq(D, LAMBDA r : r.idx \notin P)

\* C1: after a delete of the non-empty set P of displayed positions, the store
\* holds exactly the multiset of the displayed records at positions outside P.
C1_DeleteRemovesSelected ==
    last.op = "delete" =>
        SameBag(load_data(csv), NotSelected(Displayed(last.before), last.P))

\* C3: a delete leaves the survivors in the backing store in the relative
\* order they had in the backing store before it (idx is a row's position in
\* the file the delete loaded).
C3_DeleteKeepsStoreOrder ==
    last.op = "delete" =>
        /\ Len(csv.rows) = Len(last.final)
        /\ \A i, j \in 1..Len(last.final) :
              i < j => last.final[i].idx < last.final[j].idx

\* C10: a delete of a non-empty set P of distinct displayed positions of an
\* n-record store completes without error and leaves n - |P| records, each of
\* them a record of the store before, so the reported count is the number
\* removed; a delete with an empty selection leaves the file as it was.
C10_DeleteCountExact ==
    /\ last.op # "delete_error"
    /\ last.op = "delete" =>
          /\ last.P # {}
          /\ Len(csv.rows) = Len(last.before.rows) - Cardinality(last.P)
          /\ last.reported = Len(last.before.rows) - Len(csv.rows)
          /\ LET now == load_data(csv)
                 was == load_data(last.before)
             IN \A i \in 1..Len(now) : Count(now, now[i]) <= Count(was, now[i])
    /\ last.op = "delete_empty" => csv = last.before

\* a delete of two of three records
C10_Witness ==
    /\ last.op = "delete"
    /\ Cardinality(last.P) = 2
    /\ Len(last.before.rows) = 3
    /\ Len(csv.rows) = 1

\* C2: load() after a successful append of r = (date, category, hours) to a
\* loadable store yields the previous load() followed by r: every earlier
\* record keeps its values and position and exactly one record is added.
C2_AppendRoundTrip ==
    (last.op = "append" /\ LoadOk(last.before)) =>
        /\ LoadOk(csv)
        /\ load_data(csv) =
              load_data(last.before) \o
                 <<[idx |-> Len(last.before.rows), Date |-> last.new[1],
                    Category |-> last.new[2], Hours |-> last.new[3]]>>

\* an append to a store of two rows, one of them dated in another format
C2_Witness ==
    /\ last.op = "append"
    /\ Len(last.before.rows) = 2
    /\ \E i \in 1..2 : last.before.rows[i].Date.fmt = "slash"
    /\ Len(csv.rows) = 3

\* C5: an append whose read fails and a load that fails write nothing: the
\* file is as before (an append never creates a missing file), the failed
\* load's run draws no tab and no delete form, and nothing stays pending.
C5_FailedOperationsWriteNothing ==
    /\ last.op \in {"append_failed", "load_failed"} => csv = last.before
    /\ last.op = "append" => last.before.exists
    /\ last.op = "append_failed" =>
          /\ ReadCsvRaises(csv)
          /\ sess[last.sid].pc = "load"
          /\ sess[last.sid].req = "none"
    /\ last.op = "load_failed" =>
          /\ ~LoadOk(csv)
          /\ sess[last.sid].pc = "idle"
          /\ sess[last.sid].req = "none"
          /\ ~sess[last.sid].form
          /\ sess[last.sid].df = <<>>
    /\ \A s \in Single : sess[s].pc = "render" => LoadOk(csv)

\* an add form submitted while the file is missing
C5_Witness ==
    /\ last.op = "append_failed"
    /\ ~csv.exists
    /\ last.new # <<>>

-----------------------------------------------------------------------------
(* Two sessions (SpecRace) *)

\* C8: a lost update needs overlapping sessions: as long as the runs follow
\* one another, every rewrite applies its request to the store as it is.
C8_NoLostUpdateWithoutOverlap == ~overlap => ~lost

\* the interleaving the claim describes: a delete's rewrite computed from a
\* load taken before the other session's append was written, which has
\* replaced a store holding a record the delete never had on screen, so that
\* the record, whose append reported success, is gone
RaceLosesUpdate ==
    /\ overlap
    /\ lost
    /\ last.op = "delete"
    /\ LoadOk(last.before)
    /\ LoadOk(csv)
    /\ \E i \in 1..Len(last.before.rows) :
          LET r == load_data(last.before)[i]
          IN /\ Count(last.D, r) = 0
             /\ Count(load_data(csv), r) = 0


-----------------------------------------------------------------------------
(* Properties of the aggregator (SpecAgg) *)

\* the records of frame f dated in the Monday..Sunday week ending on sunday
InWeek(f, sunday) ==
    SelectSeq(f, LAMBDA r : sunday - 6 <= r.Date /\ r.Date <= sunday)

\* the Sundays from the week of the earliest record to the week of the latest
SpanSundays(f) ==
    {w \in WeekEnd(MinDate(f))..WeekEnd(MaxDate(f)) : w % 7 = 6}

StrictlyIncreasingDates(pts) ==
    \A i, j \in 1..Len(pts) : i < j => pts[i].Date < pts[j].Date

\* C4 as stated: the weekly series has a point for a week if and only if some
\* record is dated in that week (a week without records yields no point), in
\* strictly increasing week-end order.
C4_PointIffWeekHasRecord ==
    out.op = "trend" =>
        /\ StrictlyIncreasingDates(out.df_weekly)
        /\ \A w \in SpanSundays(df) :
              (\E k \in 1..Len(out.df_weekly) : out.df_weekly[k].Date = w)
                  <=> InWeek(df, w) # <<>>

\* C4 amended: the weekly series of a non-empty frame has exactly one point for
\* every week from the earliest record's week to the latest record's week,
\* labelled by its Sunday and carrying the sum of that week's hours (added in
\* date order), which is 0 for a week in between without records; the points
\* are in strictly increasing week-end order.
C4_PointPerWeekOfSpan ==
    out.op = "trend" =>
        /\ StrictlyIncreasingDates(out.df_weekly)
        /\ {out.df_weekly[k].Date : k \in 1..Len(out.df_weekly)} = SpanSundays(df)
        /\ \A k \in 1..Len(out.df_weekly) :
              LET week == InWeek(sort_index(df), out.df_weekly[k].Date)
              IN /\ out.df_weekly[k].Hours = group_sum(week)
                 /\ week = <<>> => out.df_weekly[k].Hours = Zero

\* a series with a point of total 0 for a week no record is dated in
C4_Witness ==
    /\ out.op = "trend"
    /\ \E k \in 1..Len(out.df_weekly) :
          /\ InWeek(df, out.df_weekly[k].Date) = <<>>
          /\ out.df_weekly[k].Hours = Zero

RECURSIVE ExactSum(_)
\* the sum of the hours of frame f in the reals
ExactSum(f) == IF f = <<>> THEN Zero ELSE ExactAdd(Head(f).Hours, ExactSum(Tail(f)))

RECURSIVE AbsSum(_)
\* the magnitude of the sum of the absolute hours of frame f in the reals
AbsSum(f) == IF f = <<>> THEN <<0, 0, 0>> ELSE MagAdd(Mag(Head(f).Hours), AbsSum(Tail(f)))

\* n times magnitude m
MagTimes(n, m) ==
    LET lo == n * m[3]
        mid == n * m[2] + (lo \div Limb)
    IN <<n * m[1] + (mid \div Limb), mid % Limb, lo % Limb>>

\* m <= n * a * 2^-k for magnitudes m and a and k from 40 on
AtMostRounding(m, n, a, k) ==
    /\ m[1] = 0
    /\ m[2] = 0
    /\ m[3] <= MagTimes(n, a)[1] \div 2^(k - 40)

\* C6 as stated: the grand total get_time_summary returns equals the sum of
\* the hours of all records of its input (the hours added up record by record,
\* sum(r.hours for r in S)), the empty input included, and equals the sum of
\* the per-category totals whenever the summary is not the empty marker.
C6_SumConservation ==
    out.op = "periods" =>
        \A n \in TabNames :
            LET t == out.tabs[n]
            IN /\ t.summary.total_hours = SumHours(t.df_filtered)
               /\ t.summary.time_summary # <<>> =>
                     t.summary.total_hours = SumHours(t.summary.time_summary)

\* C6 amended: the grand total get_time_summary returns equals the sum of the
\* per-category totals whenever the summary is not the empty marker, and it
\* equals the sum of the hours of the n records of its input up to the
\* rounding of the additions: the two differ by at most n * 2^-52 times the
\* sum of the absolute hours (by nothing for the empty input).
C6_SumWithinRounding ==
    out.op = "periods" =>
        \A n \in TabNames :
            LET t == out.tabs[n]
                f == t.df_filtered
                err == ExactAdd(t.summary.total_hours, fneg(ExactSum(f)))
            IN /\ AtMostRounding(Mag(err), Len(f), AbsSum(f), 52)
               /\ t.summary.time_summary # <<>> =>
                     t.summary.total_hours = SumHours(t.summary.time_summary)

\* a summary of three records in two categories whose total is not the hours
\* added up record by record
C6_Witness ==
    /\ out.op = "periods"
    /\ Len(df) = 3
    /\ Len(out.tabs["all"].summary.time_summary) = 2
    /\ out.tabs["all"].summary.total_hours # SumHours(df)

AllPositive(f) == \A i \in 1..Len(f) : fless(Zero, f[i].Hours)

\* start dates around every record and every window of the render
StartDates ==
    {today - Days7, today - Days30, today - Days150} \cup
    UNION {{df[i].Date, df[i].Date + 1} : i \in 1..Len(df)}

\* C7 as stated: with positive hours, a window starting later never totals more
\* than a window starting earlier; in a render, total(last 7 days) <=
\* total(last 30 days) <= total(last 150 days) <= total(all time).
C7_WindowMonotone ==
    AllPositive(df) =>
        /\ \A s1, s2 \in StartDates :
              s1 >= s2 =>
                 fleq(get_time_summary(FilterFrom(df, s1)).total_hours,
                      get_time_summary(FilterFrom(df, s2)).total_hours)
        /\ out.op = "periods" =>
              /\ fleq(out.totals["last7"], out.totals["last30"])
              /\ fleq(out.totals["last30"], out.totals["last150"])
              /\ fleq(out.totals["last150"], out.totals["all"])

\* total t1 is not above total t2 of frame f2 by more than the rounding of
\* both: t1 - t2 <= n * 2^-51 times the sum of the hours of the n rows of f2
NotAboveUpToRounding(t1, t2, f2) ==
    \/ fleq(t1, t2)
    \/ AtMostRounding(Mag(ExactAdd(t1, fneg(t2))), Len(f2), AbsSum(f2), 51)

\* C7 amended: with positive hours, a window starting later totals no more
\* than a window starting earlier up to the rounding of the additions: it
\* exceeds the total of the wider window of n records by at most n * 2^-51
\* times the sum of that window's hours; so it is in a render for
\* total(last 7 days), total(last 30 days), total(last 150 days) and
\* total(all time), each against the next.
C7_WindowMonotoneUpToRounding ==
    AllPositive(df) =>
        /\ \A s1, s2 \in StartDates :
              s1 >= s2 =>
                 NotAboveUpToRounding(
                     get_time_summary(FilterFrom(df, s1)).total_hours,
                     get_time_summary(FilterFrom(df, s2)).total_hours,
                     FilterFrom(df, s2))
        /\ out.op = "periods" =>
              /\ NotAboveUpToRounding(out.totals["last7"], out.totals["last30"],
                                      out.tabs["last30"].df_filtered)
              /\ NotAboveUpToRounding(out.totals["last30"], out.totals["last150"],
                                      out.tabs["last150"].df_filtered)
              /\ NotAboveUpToRounding(out.totals["last150"], out.totals["all"],
                                      out.tabs["all"].df_filtered)

\* a render of positive hours whose 7-day total is above its 30-day total
C7_Witness ==
    /\ out.op = "periods"
    /\ df # <<>>
    /\ AllPositive(df)
    /\ fless(out.totals["last30"], out.totals["last7"])

\* the position of the first row of frame f with category c
FirstAt(f, c) ==
    CHOOSE i \in 1..Len(f) :
        /\ f[i].Category = c
        /\ \A j \in 1..(i - 1) : f[j].Category # c

\* each category of the input is listed in exactly one row of the summary
EachOnce(f, ts) ==
    \A c \in {f[i].Category : i \in 1..Len(f)} :
        Cardinality({k \in 1..Len(ts) : ts[k].Category = c}) = 1

\* C9 as stated: the summary lists each category of its input once, in the
\* order of the categories' first appearance in the input.
C9_FirstAppearanceOrder ==
    out.op = "periods" =>
        \A n \in TabNames :
            LET f == out.tabs[n].df_filtered
                ts == out.tabs[n].summary.time_summary
            IN ts # <<>> =>
                 /\ EachOnce(f, ts)
                 /\ \A i, j \in 1..Len(ts) :
                       FirstAt(f, ts[i].Category) < FirstAt(f, ts[j].Category)
                          => i < j

\* C9 amended: a summary that is not the empty marker lists each category of
\* its input once, in ascending order of the category label.
C9_AscendingLabelOrder ==
    out.op = "periods" =>
        \A n \in TabNames :
            LET f == out.tabs[n].df_filtered
                ts == out.tabs[n].summary.time_summary
            IN ts # <<>> =>
                 /\ EachOnce(f, ts)
                 /\ \A i, j \in 1..Len(ts) :
                       i < j => CatKey(ts[i].Category) < CatKey(ts[j].Category)

\* a summary whose first row is a category that appears second in the input
C9_Witness ==
    /\ out.op = "periods"
    /\ LET f == out.tabs["all"].df_filtered
           ts == out.tabs["all"].summary.time_summary
       IN /\ Len(ts) = 2
          /\ FirstAt(f, ts[1].Category) > FirstAt(f, ts[2].Category)

====
